---- MODULE Spec2Model ----
(***************************************************************************)
(* The geofence violation pipeline of fatcong2023/8917final:              *)
(*   processGpsData (queue consumer)  -> violations collection             *)
(*   scanViolations (timer, 1/minute) -> e-mail + warningSent := true      *)
(*   purgeProcessedViolations (timer, 1/day) -> deleteMany(warningSent)    *)
(* Every await of a handler is an interleaving point: one action per       *)
(* awaited store / notifier call.  The document store is atomic per        *)
(* document (insertOne, updateOne, findOne) and not across documents       *)
(* (deleteMany may fail after deleting some of the matching documents).    *)
(***************************************************************************)
EXTENDS Integers, Sequences, FiniteSets, TLC

\* ------------------------------------------------------------------ bounds
\* Number of randomUUID() draws (storeViolation calls that reach the insert).
MaxViolations == 2
\* Last value of the wall clock (new Date()).
MaxClock == 1
\* Documents in the collection when a scanner run is checked on its own.
ScanBacklog == 3
\* Documents in the collection when a sweeper run is checked on its own.
PurgeBacklog == 7
\* MongoClient objects a module constructs (new MongoClient(...)).
MaxClients == 3
\* Documents in the collection when overlapping runs and a shutdown are checked.
ShutdownBacklog == 2

\* The handler invocations that may be in flight at once.
Consumers == {"c1", "c2"}
Scanners == {"s1", "s2"}
Sweepers == {"p1"}

\* ------------------------------------------------------------ GPS messages
\* Coordinates of the inbound fixes, in degrees; MalformedCoord is no latitude.
InsideCoord == 0
OutsideCoord == 50
MalformedCoord == 999
MaxLatitude == 90
MaxLongitude == 180
GeofenceHalfWidth == 10

FixInside ==
    [timestamp |-> "T1", vehicleId |-> "V1", latitude |-> InsideCoord, longitude |-> InsideCoord]
FixOutside ==
    [timestamp |-> "T1", vehicleId |-> "V1", latitude |-> OutsideCoord, longitude |-> OutsideCoord]
FixOutsideOther ==
    [timestamp |-> "T2", vehicleId |-> "V2", latitude |-> OutsideCoord, longitude |-> InsideCoord]
FixNoOwner ==
    [timestamp |-> "T1", vehicleId |-> "V3", latitude |-> OutsideCoord, longitude |-> OutsideCoord]
FixMalformed ==
    [timestamp |-> "T1", vehicleId |-> "V1", latitude |-> MalformedCoord, longitude |-> OutsideCoord]

\* The fixes the queue delivers (any of them, any number of times).
Fixes == {FixInside, FixOutside, FixNoOwner, FixMalformed}
AllFixes == Fixes \cup {FixOutsideOther}

\* The ownership records: V1 and V2 have an owner, V3 has none.
InitialUserVehicles ==
    { [vid |-> "V1", email |-> "a@x.com"], [vid |-> "V2", email |-> "b@x.com"] }

NoMessage == [timestamp |-> "", vehicleId |-> "", latitude |-> InsideCoord, longitude |-> InsideCoord]
NoVehicle == [vid |-> "", email |-> ""]

Abs(x) == IF x < 0 THEN 0 - x ELSE x

\* GeofenceService.isWithinGeofence(longitude, latitude): "inside", "outside",
\* or "throws" on a malformed coordinate.
IsWithinGeofence(longitude, latitude) ==
    IF Abs(longitude) > MaxLongitude \/ Abs(latitude) > MaxLatitude THEN "throws"
    ELSE IF Abs(longitude) <= GeofenceHalfWidth /\ Abs(latitude) <= GeofenceHalfWidth
         THEN "inside" ELSE "outside"

VARIABLES
    violations,    \* the "violations" collection: a set of documents
    userVehicles,  \* the "userVehicles" collection
    oidCount,      \* documents inserted so far (the store's _id generator)
    uuidCount,     \* randomUUID() draws so far
    now,           \* the wall clock
    consumer,      \* per processGpsData invocation: its locals and position
    scanner,       \* per scanViolations invocation: its locals and position
    sweeper,       \* per purge invocation: its locals and position
    notified,      \* history: violationIds with a delivered e-mail
    resent,        \* history: violationIds with more than one delivered e-mail
    mailedTo,      \* history: the recipient of each delivered e-mail
    env,           \* process.env: which connection strings are configured
    storePool,     \* StoreViolationService.js: client, database and the clients made
    scanPool       \* the scanner module: mongoClient, database and the clients made

vars == <<violations, userVehicles, oidCount, uuidCount, now, consumer, scanner, sweeper,
          notified, resent, mailedTo, env, storePool, scanPool>>

\* ------------------------------------------------------- the document store
\* An optional field of a document: <<>> when absent, <<x>> when set.
Absent == << >>

\* The documents of a collection in natural (insertion) order.
RECURSIVE InOrder(_)
InOrder(docs) ==
    IF docs = {} THEN << >>
    ELSE LET first == CHOOSE d \in docs : \A e \in docs : d._id <= e._id
         IN  <<first>> \o InOrder(docs \ {first})

\* A document inserted as already warned.
NewViolation_Warned(violationData, violationId, oid, date) ==
    [ _id           |-> oid,
      violationId   |-> violationId,
      vehicleId     |-> violationData.vehicleId,
      email         |-> violationData.email,
      latitude      |-> violationData.latitude,
      longitude     |-> violationData.longitude,
      timestamp     |-> violationData.timestamp,
      warningSent   |-> TRUE,
      warningSentAt |-> Absent,
      created       |-> date ]

\* The document storeViolation inserts.
NewViolation(violationData, violationId, oid, date) ==
    [ _id           |-> oid,
      violationId   |-> violationId,
      vehicleId     |-> violationData.vehicleId,
      email         |-> violationData.email,
      latitude      |-> violationData.latitude,
      longitude     |-> violationData.longitude,
      timestamp     |-> violationData.timestamp,
      warningSent   |-> FALSE,
      warningSentAt |-> Absent,
      created       |-> date ]

\* collection.insertOne(doc).
InsertOne(coll, doc) == coll \cup {doc}

\* The filter of findVehicleUser: { vid: vehicleId }.
VehicleFilter(u, vehicleId) == u.vid = vehicleId

\* collection.findOne({ vid: vehicleId }): the set holding the first match, or {}.
FindOne(coll, vehicleId) ==
    LET hits == {u \in coll : VehicleFilter(u, vehicleId)}
    IN  IF hits = {} THEN {} ELSE {CHOOSE u \in hits : TRUE}

\* A scanner read that does not filter on warningSent.
UnsentFilter_Any(v) == TRUE

\* The filter of getUnsentViolations: { warningSent: false }.
UnsentFilter(v) == v.warningSent = FALSE

\* A read that returns every document.
FindUnsent_All(coll) == InOrder(coll)

\* collection.find({ warningSent: false }).toArray().
FindUnsent(coll) == InOrder({v \in coll : UnsentFilter(v)})

\* The filter of markViolationAsWarned: { violationId: violationId }.
MarkFilter(v, violationId) == v.violationId = violationId

\* An update that flips warningSent.
MarkUpdate_Toggle(v, date) == [v EXCEPT !.warningSent = ~@, !.warningSentAt = <<date>>]

\* An update that also rewrites the position.
MarkUpdate_Relocate(v, date) ==
    [v EXCEPT !.warningSent = TRUE, !.warningSentAt = <<date>>, !.latitude = 0]

\* The update of markViolationAsWarned: $set warningSent, warningSentAt.
MarkUpdate(v, date) == [v EXCEPT !.warningSent = TRUE, !.warningSentAt = <<date>>]

\* collection.updateOne(filter, update): the first matching document is
\* updated; the result carries matchedCount and modifiedCount.
UpdateOne(coll, violationId, date) ==
    LET hits == {v \in coll : MarkFilter(v, violationId)}
    IN  IF hits = {}
        THEN [coll |-> coll, matchedCount |-> 0, modifiedCount |-> 0]
        ELSE LET old == InOrder(hits)[1]
                 new == MarkUpdate(old, date)
             IN  [coll          |-> (coll \ {old}) \cup {new},
                  matchedCount  |-> 1,
                  modifiedCount |-> IF new = old THEN 0 ELSE 1]

\* The filter of the count in purgeProcessedViolations: { warningSent: true }.
CountFilter(v) == v.warningSent = TRUE

\* collection.countDocuments({ warningSent: true }).
CountSent(coll) == Cardinality({v \in coll : CountFilter(v)})

\* A delete whose filter is inverted.
PurgeFilter_Inverted(v) == v.warningSent = FALSE

\* The filter of the delete in purgeProcessedViolations: { warningSent: true }.
PurgeFilter(v) == v.warningSent = TRUE

\* A count of the unsent documents only.
CountAll_Unsent(coll) == Cardinality({v \in coll : v.warningSent = FALSE})

\* collection.countDocuments().
CountAll(coll) == Cardinality(coll)

\* A delete that takes every document.
PurgeTargets_All(coll) == coll

\* A delete that stops after the first matching document.
PurgeTargets_First(coll) ==
    LET hits == {v \in coll : PurgeFilter(v)}
    IN  IF hits = {} THEN {} ELSE {InOrder(hits)[1]}

\* The documents collection.deleteMany({ warningSent: true }) is to delete.
PurgeTargets(coll) == {v \in coll : PurgeFilter(v)}

\* An identifier generator that repeats itself.
RandomUUID_Repeating(n) == 1

\* An identifier generator stuck at one value.
RandomUUID_Stuck(n) == 7

\* randomUUID(): the n-th draw differs from every earlier one.
RandomUUID(n) == n + 1

\* ------------------------------------------------------------------- Init
IdleConsumer ==
    [pc |-> "idle", msg |-> NoMessage, vehicleRecord |-> NoVehicle,
     result |-> "none", dbError |-> FALSE, ops |-> {}]

IdleScanner ==
    [pc |-> "idle", violations |-> << >>, i |-> 0, successCount |-> 0, failCount |-> 0,
     result |-> "none"]

IdleSweeper ==
    [pc |-> "idle", countBeforePurge |-> 0, countBefore |-> 0, deletedCount |-> 0,
     countAfterPurge |-> 0, result |-> "none"]

\* process.env with both connection strings set.
Configured == [MONGODB_CONNECTION_STRING |-> TRUE, COMMUNICATION_SERVICES_CONNECTION_STRING |-> TRUE]

\* The module state of StoreViolationService.js at load: client = null,
\* database = null (0 is null, k > 0 the k-th MongoClient made, or its db
\* handle); no client made, none connected, no invocation awaiting a connect.
NoStorePool ==
    [client |-> 0, database |-> 0, made |-> 0, connected |-> {},
     awaiting |-> [c \in Consumers |-> 0]]

\* The module state of the scanner at load: mongoClient = null, database = null,
\* no client made, none closed, no signal handler running; nullUse records
\* that database.collection(...) was reached with database null.
NoScanPool ==
    [mongoClient |-> 0, database |-> 0, made |-> 0, closed |-> {}, signal |-> "none",
     nullUse |-> FALSE]

Init ==
    /\ violations = {}
    /\ userVehicles = InitialUserVehicles
    /\ oidCount = 0
    /\ uuidCount = 0
    /\ now = 0
    /\ consumer = [c \in Consumers |-> IdleConsumer]
    /\ scanner = [s \in Scanners |-> IdleScanner]
    /\ sweeper = [p \in Sweepers |-> IdleSweeper]
    /\ notified = {}
    /\ resent = {}
    /\ mailedTo = {}
    /\ env = Configured
    /\ storePool = NoStorePool
    /\ scanPool = NoScanPool

\* The wall clock advances.
Tick ==
    /\ now < MaxClock
    /\ now' = now + 1
    /\ UNCHANGED <<violations, userVehicles, oidCount, uuidCount, consumer, scanner, sweeper, notified, resent,
                   mailedTo, env, storePool, scanPool>>

\* ------------------------------------------------- processGpsData handler
\* A handler whose branches on the evaluator's answer are swapped.
GeofenceBranch_Swapped(geo) ==
    CASE geo = "outside" -> [pc |-> "done", result |-> "completed"]
      [] geo = "inside"  -> [pc |-> "lookup", result |-> "none"]
      [] OTHER           -> [pc |-> "done", result |-> "thrown"]

\* A handler that swallows an evaluator error.
GeofenceBranch_Swallow(geo) ==
    CASE geo = "inside"  -> [pc |-> "done", result |-> "completed"]
      [] geo = "outside" -> [pc |-> "lookup", result |-> "none"]
      [] OTHER           -> [pc |-> "done", result |-> "completed"]

\* Where the handler goes on the evaluator's answer: an inside fix ends the
\* invocation, an outside fix goes on to the owner lookup, and an evaluator
\* error is rethrown by the outer catch.
GeofenceBranch(geo) ==
    CASE geo = "inside"  -> [pc |-> "done", result |-> "completed"]
      [] geo = "outside" -> [pc |-> "lookup", result |-> "none"]
      [] OTHER           -> [pc |-> "done", result |-> "thrown"]

\* A handler that stores the violation whether or not an owner was found.
LookupBranch_Always(hits) == [pc |-> "store", result |-> "none"]

\* Where the handler goes on findVehicleUser's answer (hits: {} for null).
LookupBranch(hits) ==
    IF hits # {} THEN [pc |-> "store", result |-> "none"]
    ELSE [pc |-> "done", result |-> "completed"]

\* What the inner catch (dbError) leaves: the error is logged, nothing is thrown.
DbErrorBranch == [pc |-> "done", result |-> "completed"]

\* The violationData object the handler hands to storeViolation.
ViolationData(msg, vehicleRecord) ==
    [vehicleId |-> msg.vehicleId, email |-> vehicleRecord.email,
     latitude |-> msg.latitude, longitude |-> msg.longitude, timestamp |-> msg.timestamp]

\* A message arrives: the handler runs up to its first await.
ConsumerReceive(c, fix) ==
    /\ consumer[c].pc = "idle"
    /\ LET branch == GeofenceBranch(IsWithinGeofence(fix.longitude, fix.latitude))
       IN  consumer' = [consumer EXCEPT ![c] =
               [IdleConsumer EXCEPT !.pc = branch.pc, !.msg = fix, !.result = branch.result]]
    /\ UNCHANGED <<violations, userVehicles, oidCount, uuidCount, now, scanner, sweeper, notified, resent,
                   mailedTo, env, storePool, scanPool>>

\* await findVehicleUser(vehicleId) returns the ownership record or null.
ConsumerLookup(c) ==
    /\ consumer[c].pc = "lookup"
    /\ LET hits == FindOne(userVehicles, consumer[c].msg.vehicleId)
           branch == LookupBranch(hits)
       IN  consumer' = [consumer EXCEPT ![c] =
               [@ EXCEPT !.pc = branch.pc, !.result = branch.result,
                         !.ops = @ \cup {"findOne"},
                         !.vehicleRecord = IF hits = {} THEN NoVehicle
                                           ELSE CHOOSE u \in hits : TRUE]]
    /\ UNCHANGED <<violations, userVehicles, oidCount, uuidCount, now, scanner, sweeper, notified, resent,
                   mailedTo, env, storePool, scanPool>>

\* await findVehicleUser(vehicleId) throws (connection or query failure).
ConsumerLookupFails(c) ==
    /\ consumer[c].pc = "lookup"
    /\ consumer' = [consumer EXCEPT ![c] =
           [@ EXCEPT !.pc = DbErrorBranch.pc, !.result = DbErrorBranch.result,
                     !.dbError = TRUE, !.ops = @ \cup {"findOne"}]]
    /\ UNCHANGED <<violations, userVehicles, oidCount, uuidCount, now, scanner, sweeper, notified, resent,
                   mailedTo, env, storePool, scanPool>>

\* await storeViolation(violationData) inserts the document.
ConsumerStore(c) ==
    /\ consumer[c].pc = "store"
    /\ uuidCount < MaxViolations
    /\ LET violationId == RandomUUID(uuidCount)
           doc == NewViolation(ViolationData(consumer[c].msg, consumer[c].vehicleRecord),
                               violationId, oidCount + 1, now)
       IN  violations' = InsertOne(violations, doc)
    /\ uuidCount' = uuidCount + 1
    /\ oidCount' = oidCount + 1
    /\ consumer' = [consumer EXCEPT ![c] =
           [@ EXCEPT !.pc = "done", !.result = "completed", !.ops = @ \cup {"insertOne"}]]
    /\ UNCHANGED <<userVehicles, now, scanner, sweeper, notified, resent,
                   mailedTo, env, storePool, scanPool>>

\* await storeViolation(violationData) throws: getMongoClient fails before the
\* UUID is drawn, or insertOne fails after it.
ConsumerStoreFails(c) ==
    /\ consumer[c].pc = "store"
    /\ \/ UNCHANGED uuidCount
       \/ uuidCount < MaxViolations /\ uuidCount' = uuidCount + 1
    /\ consumer' = [consumer EXCEPT ![c] =
           [@ EXCEPT !.pc = DbErrorBranch.pc, !.result = DbErrorBranch.result,
                     !.dbError = TRUE, !.ops = @ \cup {"insertOne"}]]
    /\ UNCHANGED <<violations, userVehicles, oidCount, now, scanner, sweeper, notified, resent,
                   mailedTo, env, storePool, scanPool>>

\* The handler has returned or thrown: the runtime settles the message (completes
\* it after a return, abandons it for redelivery after a throw).
ConsumerSettle(c) ==
    /\ consumer[c].pc = "done"
    /\ consumer' = [consumer EXCEPT ![c] = IdleConsumer]
    /\ UNCHANGED <<violations, userVehicles, oidCount, uuidCount, now, scanner, sweeper, notified, resent,
                   mailedTo, env, storePool, scanPool>>

\* ------------------------------------------------- scanViolations handler
\* The record the for-of loop is at.
Current(run) == run.violations[run.i]

\* The loop goes to the next record; after the last one the run logs its
\* counts and goes to the finally block.
NextRecord(run) ==
    IF run.i + 1 > Len(run.violations)
    THEN [run EXCEPT !.i = run.i + 1, !.pc = "cleanup", !.result = "completed"]
    ELSE [run EXCEPT !.i = run.i + 1, !.pc = "send"]

\* The end of the try block: successCount++.
AfterSuccess(run) ==
    NextRecord([run EXCEPT !.successCount = @ + 1])

\* A catch block that ends the loop at the first failure.
AfterFailure_Abort(run) ==
    [run EXCEPT !.failCount = @ + 1, !.pc = "cleanup", !.result = "completed"]

\* A catch block that counts the record as a success.
AfterFailure_AsSuccess(run) ==
    NextRecord([run EXCEPT !.successCount = @ + 1])

\* The catch block of the loop: failCount++ and continue.
AfterFailure(run) ==
    NextRecord([run EXCEPT !.failCount = @ + 1])

\* A loop that marks a record before sending for it.
AfterRead_MarkFirst(list) ==
    IF Len(list) = 0
    THEN [IdleScanner EXCEPT !.pc = "cleanup", !.result = "completed"]
    ELSE [IdleScanner EXCEPT !.pc = "mark", !.violations = list, !.i = 1]

\* The run after getUnsentViolations returned list: an empty list returns at once.
AfterRead(list) ==
    IF Len(list) = 0
    THEN [IdleScanner EXCEPT !.pc = "cleanup", !.result = "completed"]
    ELSE [IdleScanner EXCEPT !.pc = "send", !.violations = list, !.i = 1]

\* The timer fires: violations = await getUnsentViolations().
ScanStart(s) ==
    /\ scanner[s].pc = "idle"
    /\ env.MONGODB_CONNECTION_STRING
    /\ scanner' = [scanner EXCEPT ![s] = AfterRead(FindUnsent(violations))]
    /\ UNCHANGED <<violations, userVehicles, oidCount, uuidCount, now, consumer, sweeper, notified, resent,
                   mailedTo, env, storePool, scanPool>>

\* The timer fires and getUnsentViolations throws: the handler rethrows.
ScanStartFails(s) ==
    /\ scanner[s].pc = "idle"
    /\ scanner' = [scanner EXCEPT ![s] = [IdleScanner EXCEPT !.pc = "cleanup", !.result = "thrown"]]
    /\ UNCHANGED <<violations, userVehicles, oidCount, uuidCount, now, consumer, sweeper, notified, resent,
                   mailedTo, env, storePool, scanPool>>

\* A notifier that looks the address up in the ownership records.
Recipient_CurrentOwner(violation) ==
    (CHOOSE u \in userVehicles : u.vid = violation.vehicleId).email

\* The address of the e-mail: recipients.to = [{ address: violation.email }].
Recipient(violation) == violation.email

\* await sendViolationEmail(violation) returns: the e-mail is delivered.
ScanSend(s) ==
    /\ scanner[s].pc = "send"
    /\ env.COMMUNICATION_SERVICES_CONNECTION_STRING
    /\ LET id == Current(scanner[s]).violationId
       IN  /\ notified' = notified \cup {id}
           /\ resent' = IF id \in notified THEN resent \cup {id} ELSE resent
           /\ mailedTo' = mailedTo \cup {[violationId |-> id, to |-> Recipient(Current(scanner[s]))]}
    /\ scanner' = [scanner EXCEPT ![s].pc = "mark"]
    /\ UNCHANGED <<violations, userVehicles, oidCount, uuidCount, now, consumer, sweeper,
                   env, storePool, scanPool>>

\* await sendViolationEmail(violation) throws.
ScanSendFails(s) ==
    /\ scanner[s].pc = "send"
    /\ scanner' = [scanner EXCEPT ![s] = AfterFailure(@)]
    /\ UNCHANGED <<violations, userVehicles, oidCount, uuidCount, now, consumer, sweeper, notified, resent,
                   mailedTo, env, storePool, scanPool>>

\* await markViolationAsWarned(violation.violationId) returns the update result.
ScanMark(s) ==
    /\ scanner[s].pc = "mark"
    /\ env.MONGODB_CONNECTION_STRING
    /\ LET result == UpdateOne(violations, Current(scanner[s]).violationId, now)
       IN  /\ violations' = result.coll
           /\ scanner' = [scanner EXCEPT ![s] = AfterSuccess(@)]
    /\ UNCHANGED <<userVehicles, oidCount, uuidCount, now, consumer, sweeper, notified, resent,
                   mailedTo, env, storePool, scanPool>>

\* await markViolationAsWarned(violation.violationId) throws.
ScanMarkFails(s) ==
    /\ scanner[s].pc = "mark"
    /\ scanner' = [scanner EXCEPT ![s] = AfterFailure(@)]
    /\ UNCHANGED <<violations, userVehicles, oidCount, uuidCount, now, consumer, sweeper, notified, resent,
                   mailedTo, env, storePool, scanPool>>

\* finally: await cleanupResources(); the invocation ends.
ScanCleanup(s) ==
    /\ scanner[s].pc = "cleanup"
    /\ scanner' = [scanner EXCEPT ![s] = IdleScanner]
    /\ UNCHANGED <<violations, userVehicles, oidCount, uuidCount, now, consumer, sweeper, notified, resent,
                   mailedTo, env, storePool, scanPool>>

\* --------------------------------------- purgeProcessedViolations handler
\* The catch block of the handler: the error is logged and rethrown, and the
\* run's counts are never reported.
Thrown == [IdleSweeper EXCEPT !.pc = "cleanup", !.result = "thrown"]

\* The timer fires and await getMongoClient() returns.
PurgeStart(p) ==
    /\ sweeper[p].pc = "idle"
    /\ env.MONGODB_CONNECTION_STRING
    /\ sweeper' = [sweeper EXCEPT ![p] =
           [IdleSweeper EXCEPT !.pc = "countAll"]]
    /\ UNCHANGED <<violations, userVehicles, oidCount, uuidCount, now, consumer, scanner, notified, resent,
                   mailedTo, env, storePool, scanPool>>

\* An awaited call of the run throws before it changes the store: the handler
\* logs, rethrows and goes to the finally block.
PurgeFails(p) ==
    /\ sweeper[p].pc \in {"idle", "countAll", "countSent", "delete", "countAfter"}
    /\ sweeper' = [sweeper EXCEPT ![p] = Thrown]
    /\ UNCHANGED <<violations, userVehicles, oidCount, uuidCount, now, consumer, scanner, notified, resent,
                   mailedTo, env, storePool, scanPool>>

\* countBeforePurge = await countDocuments().
PurgeCountAll(p) ==
    /\ sweeper[p].pc = "countAll"
    /\ sweeper' = [sweeper EXCEPT ![p].countBeforePurge = CountAll(violations),
                                  ![p].pc = "countSent"]
    /\ UNCHANGED <<violations, userVehicles, oidCount, uuidCount, now, consumer, scanner, notified, resent,
                   mailedTo, env, storePool, scanPool>>

\* A sweeper that never goes to its delete.
CountBranch_Never(countBefore) == "countAfter"

\* Where purgeProcessedViolations goes on its count: 0 returns { deletedCount: 0 }.
CountBranch(countBefore) == IF countBefore = 0 THEN "countAfter" ELSE "delete"

\* countBefore = await countDocuments({ warningSent: true }).
PurgeCountSent(p) ==
    /\ sweeper[p].pc = "countSent"
    /\ LET countBefore == CountSent(violations)
       IN  sweeper' = [sweeper EXCEPT ![p].countBefore = countBefore,
                                      ![p].deletedCount = 0,
                                      ![p].pc = CountBranch(countBefore)]
    /\ UNCHANGED <<violations, userVehicles, oidCount, uuidCount, now, consumer, scanner, notified, resent,
                   mailedTo, env, storePool, scanPool>>

\* result = await deleteMany({ warningSent: true }).
PurgeDelete(p) ==
    /\ sweeper[p].pc = "delete"
    /\ LET targets == PurgeTargets(violations)
       IN  /\ violations' = violations \ targets
           /\ sweeper' = [sweeper EXCEPT ![p].deletedCount = Cardinality(targets),
                                         ![p].pc = "countAfter"]
    /\ UNCHANGED <<userVehicles, oidCount, uuidCount, now, consumer, scanner, notified, resent,
                   mailedTo, env, storePool, scanPool>>

\* deleteMany throws after it deleted some, not all, of the matching documents.
PurgeDeletePartial(p) ==
    /\ sweeper[p].pc = "delete"
    /\ \E gone \in SUBSET PurgeTargets(violations) :
           /\ gone # {} /\ gone # PurgeTargets(violations)
           /\ violations' = violations \ gone
    /\ sweeper' = [sweeper EXCEPT ![p] = Thrown]
    /\ UNCHANGED <<userVehicles, oidCount, uuidCount, now, consumer, scanner, notified, resent,
                   mailedTo, env, storePool, scanPool>>

\* countAfterPurge = await countDocuments(); the run logs its report.
PurgeCountAfter(p) ==
    /\ sweeper[p].pc = "countAfter"
    /\ sweeper' = [sweeper EXCEPT ![p].countAfterPurge = CountAll(violations),
                                  ![p].pc = "cleanup", ![p].result = "completed"]
    /\ UNCHANGED <<violations, userVehicles, oidCount, uuidCount, now, consumer, scanner, notified, resent,
                   mailedTo, env, storePool, scanPool>>

\* finally: await cleanupResources(); the invocation ends.
PurgeCleanup(p) ==
    /\ sweeper[p].pc = "cleanup"
    /\ sweeper' = [sweeper EXCEPT ![p] = IdleSweeper]
    /\ UNCHANGED <<violations, userVehicles, oidCount, uuidCount, now, consumer, scanner, notified, resent,
                   mailedTo, env, storePool, scanPool>>

\* --------------------------------------------------------- specifications
\* The whole pipeline: one consumer, two overlapping scanner runs, one sweeper.
Next ==
    \/ \E fix \in Fixes : ConsumerReceive("c1", fix)
    \/ ConsumerLookup("c1")
    \/ ConsumerLookupFails("c1")
    \/ ConsumerStore("c1")
    \/ ConsumerStoreFails("c1")
    \/ ConsumerSettle("c1")
    \/ \E s \in Scanners : ScanStart(s)
    \/ \E s \in Scanners : ScanStartFails(s)
    \/ \E s \in Scanners : ScanSend(s)
    \/ \E s \in Scanners : ScanSendFails(s)
    \/ \E s \in Scanners : ScanMark(s)
    \/ \E s \in Scanners : ScanMarkFails(s)
    \/ \E s \in Scanners : ScanCleanup(s)
    \/ \E p \in Sweepers : PurgeStart(p)
    \/ \E p \in Sweepers : PurgeFails(p)
    \/ \E p \in Sweepers : PurgeCountAll(p)
    \/ \E p \in Sweepers : PurgeCountSent(p)
    \/ \E p \in Sweepers : PurgeDelete(p)
    \/ \E p \in Sweepers : PurgeDeletePartial(p)
    \/ \E p \in Sweepers : PurgeCountAfter(p)
    \/ \E p \in Sweepers : PurgeCleanup(p)

Spec == Init /\ [][Next]_vars

\* The consumer on its own: concurrent invocations, any fix, the clock running.
NextIngest ==
    \/ Tick
    \/ \E c \in Consumers, fix \in AllFixes : ConsumerReceive(c, fix)
    \/ \E c \in Consumers : ConsumerLookup(c)
    \/ \E c \in Consumers : ConsumerLookupFails(c)
    \/ \E c \in Consumers : ConsumerStore(c)
    \/ \E c \in Consumers : ConsumerStoreFails(c)
    \/ \E c \in Consumers : ConsumerSettle(c)

SpecIngest == Init /\ [][NextIngest]_vars

\* A collection of n documents as the consumer and the scanner leave them:
\* those of sentIds are marked, the others are not.
Backlog(n, sentIds) ==
    { LET doc == NewViolation(ViolationData(FixOutside, CHOOSE u \in InitialUserVehicles : u.vid = "V1"),
                              RandomUUID(k - 1), k, 0)
      IN  IF k \in sentIds THEN MarkUpdate(doc, 0) ELSE doc : k \in 1..n }

InitBacklog(n) ==
    /\ \E sentIds \in SUBSET (1..n) :
           /\ violations = Backlog(n, sentIds)
           /\ notified = sentIds
    /\ resent = {}
    /\ mailedTo = {}
    /\ env = Configured
    /\ storePool = NoStorePool
    /\ scanPool = NoScanPool
    /\ userVehicles = InitialUserVehicles
    /\ oidCount = n
    /\ uuidCount = n
    /\ now = 0
    /\ consumer = [c \in Consumers |-> IdleConsumer]
    /\ scanner = [s \in Scanners |-> IdleScanner]
    /\ sweeper = [p \in Sweepers |-> IdleSweeper]

\* One scanner run at a time over a backlog, nothing else writing the store.
NextScan ==
    \/ ScanStart("s1")
    \/ ScanStartFails("s1")
    \/ ScanSend("s1")
    \/ ScanSendFails("s1")
    \/ ScanMark("s1")
    \/ ScanMarkFails("s1")
    \/ ScanCleanup("s1")

SpecScan == InitBacklog(ScanBacklog) /\ [][NextScan]_vars

\* One sweeper run at a time over a backlog, nothing else writing the store.
NextPurge ==
    \/ PurgeStart("p1")
    \/ PurgeFails("p1")
    \/ PurgeCountAll("p1")
    \/ PurgeCountSent("p1")
    \/ PurgeDelete("p1")
    \/ PurgeDeletePartial("p1")
    \/ PurgeCountAfter("p1")
    \/ PurgeCleanup("p1")

SpecPurge == InitBacklog(PurgeBacklog) /\ [][NextPurge]_vars

\* The pipeline under fair scheduling: one consumer, one scanner run and one
\* sweeper run at a time.  The timers keep firing; a send, a mark and a delete
\* may fail, and each of them, attempted again and again, eventually returns
\* (for every record).
NextLive ==
    \/ \E fix \in {FixInside, FixOutside} : ConsumerReceive("c1", fix)
    \/ ConsumerLookup("c1")
    \/ ConsumerLookupFails("c1")
    \/ ConsumerStore("c1")
    \/ ConsumerStoreFails("c1")
    \/ ConsumerSettle("c1")
    \/ ScanStart("s1")
    \/ ScanSend("s1")
    \/ ScanSendFails("s1")
    \/ ScanMark("s1")
    \/ ScanMarkFails("s1")
    \/ ScanCleanup("s1")
    \/ PurgeStart("p1")
    \/ PurgeCountAll("p1")
    \/ PurgeCountSent("p1")
    \/ PurgeDelete("p1")
    \/ sweeper["p1"].pc = "delete" /\ PurgeFails("p1")
    \/ PurgeDeletePartial("p1")
    \/ PurgeCountAfter("p1")
    \/ PurgeCleanup("p1")

Fairness ==
    /\ WF_vars(ScanStart("s1"))
    /\ \A id \in 1..MaxViolations :
          /\ SF_vars(ScanSend("s1") /\ Current(scanner["s1"]).violationId = id)
          /\ SF_vars(ScanMark("s1") /\ Current(scanner["s1"]).violationId = id)
    /\ WF_vars(ScanSendFails("s1") \/ ScanMarkFails("s1") \/ ScanSend("s1") \/ ScanMark("s1"))
    /\ WF_vars(ScanCleanup("s1"))
    /\ WF_vars(PurgeStart("p1"))
    /\ WF_vars(PurgeCountAll("p1"))
    /\ WF_vars(PurgeCountSent("p1"))
    /\ SF_vars(PurgeDelete("p1"))
    /\ WF_vars(PurgeCountAfter("p1"))
    /\ WF_vars(PurgeCleanup("p1"))

SpecLive == Init /\ [][NextLive]_vars /\ Fairness

\* process.env as the deployment may leave it: each connection string set or not.
Environments ==
    [MONGODB_CONNECTION_STRING : BOOLEAN, COMMUNICATION_SERVICES_CONNECTION_STRING : BOOLEAN]

\* A backlog and any configuration.
InitConfig ==
    /\ \E sentIds \in SUBSET (1..ScanBacklog) :
           /\ violations = Backlog(ScanBacklog, sentIds)
           /\ notified = sentIds
    /\ env \in Environments
    /\ resent = {}
    /\ mailedTo = {}
    /\ storePool = NoStorePool
    /\ scanPool = NoScanPool
    /\ userVehicles = InitialUserVehicles
    /\ oidCount = ScanBacklog
    /\ uuidCount = ScanBacklog
    /\ now = 0
    /\ consumer = [c \in Consumers |-> IdleConsumer]
    /\ scanner = [s \in Scanners |-> IdleScanner]
    /\ sweeper = [p \in Sweepers |-> IdleSweeper]

\* Scanner and sweeper runs under any configuration.
NextConfig == NextScan \/ NextPurge

SpecConfig == InitConfig /\ [][NextConfig]_vars

\* The ownership record of V1 as changed by its administration.
ChangedOwner == [vid |-> "V1", email |-> "c@x.com"]

\* The ownership of V1 changes (the userVehicles collection is written by the
\* vehicle administration only, never by the pipeline).
ChangeOwner ==
    /\ ChangedOwner \notin userVehicles
    /\ userVehicles' = {u \in userVehicles : u.vid # ChangedOwner.vid} \cup {ChangedOwner}
    /\ UNCHANGED <<violations, oidCount, uuidCount, now, consumer, scanner, sweeper,
                   notified, resent, mailedTo, env, storePool, scanPool>>

\* The consumer and the scanner while the ownership records change.
NextOwner ==
    \/ ChangeOwner
    \/ \E fix \in Fixes : ConsumerReceive("c1", fix)
    \/ ConsumerLookup("c1")
    \/ ConsumerLookupFails("c1")
    \/ ConsumerStore("c1")
    \/ ConsumerStoreFails("c1")
    \/ ConsumerSettle("c1")
    \/ NextScan

SpecOwner == Init /\ [][NextOwner]_vars

\* ----------------------------------- the consumer's connection, spelled out
\* getMongoClient() of StoreViolationService.js up to its await: with client
\* null a MongoClient is made and assigned to client before the connect is
\* awaited; otherwise the existing client is returned.
StoreGetClient(pool, c) ==
    IF pool.client = 0
    THEN [pool EXCEPT !.client = pool.made + 1, !.made = pool.made + 1,
                      !.awaiting[c] = pool.made + 1]
    ELSE pool

\* A findVehicleUser without the test of database.
Reinitialise_Skip(first, c) == first

\* The double-check of findVehicleUser after getMongoClient() returned the
\* existing client: with database null, client = null and getMongoClient()
\* again.
Reinitialise(first, c) ==
    IF first.awaiting[c] = 0 /\ first.database = 0
    THEN StoreGetClient([first EXCEPT !.client = 0], c)
    ELSE first

\* findVehicleUser(vehicleId) up to its first suspension: getMongoClient();
\* when that returns the existing client and database is still null, client
\* is set to null and getMongoClient() is called again.
FindVehicleUserEnter(c) ==
    /\ consumer[c].pc = "lookup"
    /\ storePool.made < MaxClients
    /\ LET first == StoreGetClient(storePool, c)
           pool == Reinitialise(first, c)
       IN  /\ storePool' = pool
           /\ consumer' = [consumer EXCEPT ![c].pc =
                  IF pool.awaiting[c] = 0 THEN "findOne" ELSE "connect"]
    /\ UNCHANGED <<violations, userVehicles, oidCount, uuidCount, now, scanner, sweeper,
                   notified, resent, mailedTo, env, scanPool>>

\* await client.connect() returns in getMongoClient: database = client.db(...)
\* of the module's client as it is now; findVehicleUser goes on to the query.
ClientConnected(c) ==
    /\ consumer[c].pc = "connect"
    /\ storePool' = [storePool EXCEPT !.connected = @ \cup {storePool.awaiting[c]},
                                      !.database = storePool.client,
                                      !.awaiting[c] = 0]
    /\ consumer' = [consumer EXCEPT ![c].pc = "findOne"]
    /\ UNCHANGED <<violations, userVehicles, oidCount, uuidCount, now, scanner, sweeper,
                   notified, resent, mailedTo, env, scanPool>>

\* await client.connect() throws: getMongoClient and findVehicleUser rethrow,
\* client stays assigned and database stays null.
ClientConnectFails(c) ==
    /\ consumer[c].pc = "connect"
    /\ storePool' = [storePool EXCEPT !.awaiting[c] = 0]
    /\ consumer' = [consumer EXCEPT ![c] =
           [@ EXCEPT !.pc = DbErrorBranch.pc, !.result = DbErrorBranch.result,
                     !.dbError = TRUE]]
    /\ UNCHANGED <<violations, userVehicles, oidCount, uuidCount, now, scanner, sweeper,
                   notified, resent, mailedTo, env, scanPool>>

\* database.collection("userVehicles") and await collection.findOne({ vid:
\* vehicleId }): with database null the call throws a TypeError, which ends in
\* the handler's catch (dbError); otherwise the query waits for the client of
\* the database handle to be connected and returns the record or null.
ConsumerFindOne(c) ==
    /\ consumer[c].pc = "findOne"
    /\ storePool.database = 0 \/ storePool.database \in storePool.connected
    /\ LET hits == FindOne(userVehicles, consumer[c].msg.vehicleId)
           branch == LookupBranch(hits)
       IN  consumer' = [consumer EXCEPT ![c] =
               IF storePool.database = 0
               THEN [@ EXCEPT !.pc = DbErrorBranch.pc, !.result = DbErrorBranch.result,
                              !.dbError = TRUE, !.ops = @ \cup {"nullDatabase"}]
               ELSE [@ EXCEPT !.pc = branch.pc, !.result = branch.result,
                              !.ops = @ \cup {"findOne"},
                              !.vehicleRecord = IF hits = {} THEN NoVehicle
                                                ELSE CHOOSE u \in hits : TRUE]]
    /\ UNCHANGED <<violations, userVehicles, oidCount, uuidCount, now, scanner, sweeper,
                   notified, resent, mailedTo, env, storePool, scanPool>>

\* await collection.findOne({ vid: vehicleId }) throws.
ConsumerFindOneFails(c) ==
    /\ consumer[c].pc = "findOne"
    /\ consumer' = [consumer EXCEPT ![c] =
           [@ EXCEPT !.pc = DbErrorBranch.pc, !.result = DbErrorBranch.result,
                     !.dbError = TRUE, !.ops = @ \cup {"findOne"}]]
    /\ UNCHANGED <<violations, userVehicles, oidCount, uuidCount, now, scanner, sweeper,
                   notified, resent, mailedTo, env, storePool, scanPool>>

\* Concurrent consumer invocations in one process, from a cold start.
NextConnect ==
    \/ \E c \in Consumers, fix \in {FixInside, FixOutside} : ConsumerReceive(c, fix)
    \/ \E c \in Consumers : FindVehicleUserEnter(c)
    \/ \E c \in Consumers : ClientConnected(c)
    \/ \E c \in Consumers : ClientConnectFails(c)
    \/ \E c \in Consumers : ConsumerFindOne(c)
    \/ \E c \in Consumers : ConsumerFindOneFails(c)
    \/ \E c \in Consumers : ConsumerStore(c)
    \/ \E c \in Consumers : ConsumerStoreFails(c)
    \/ \E c \in Consumers : ConsumerSettle(c)

SpecConnect == Init /\ [][NextConnect]_vars

\* ------------------------------------ the scanner's connection, spelled out
\* getMongoClient() of the scanner module: with mongoClient null a MongoClient
\* is made, connected and assigned with its database; otherwise the existing
\* client is returned, closed or not.
ScanGetClient(pool) ==
    IF pool.mongoClient = 0
    THEN [pool EXCEPT !.mongoClient = pool.made + 1, !.database = pool.made + 1,
                      !.made = pool.made + 1]
    ELSE pool

\* The timer fires: getUnsentViolations acquires the client and reads.
ScanReadPooled(s) ==
    /\ scanner[s].pc = "idle"
    /\ env.MONGODB_CONNECTION_STRING
    /\ scanPool.made < MaxClients
    /\ scanPool' = ScanGetClient(scanPool)
    /\ scanner' = [scanner EXCEPT ![s] = AfterRead(FindUnsent(violations))]
    /\ UNCHANGED <<violations, userVehicles, oidCount, uuidCount, now, consumer, sweeper,
                   notified, resent, mailedTo, env, storePool>>

\* markViolationAsWarned acquires the client and updates.
ScanMarkPooled(s) ==
    /\ scanner[s].pc = "mark"
    /\ env.MONGODB_CONNECTION_STRING
    /\ scanPool.made < MaxClients
    /\ scanPool' = ScanGetClient(scanPool)
    /\ LET result == UpdateOne(violations, Current(scanner[s]).violationId, now)
       IN  /\ violations' = result.coll
           /\ scanner' = [scanner EXCEPT ![s] = AfterSuccess(@)]
    /\ UNCHANGED <<userVehicles, oidCount, uuidCount, now, consumer, sweeper,
                   notified, resent, mailedTo, env, storePool>>

\* cleanupResources() up to its await: with a client, close() is called on it.
CloseBegin(pool) ==
    IF pool.mongoClient # 0 THEN [pool EXCEPT !.closed = @ \cup {pool.mongoClient}] ELSE pool

\* cleanupResources() after its await: mongoClient = null, database = null.
CloseEnd(pool) == [pool EXCEPT !.mongoClient = 0, !.database = 0]

\* finally: cleanupResources() is called and awaits mongoClient.close().
ScanFinallyClose(s) ==
    /\ scanner[s].pc = "cleanup"
    /\ scanPool' = CloseBegin(scanPool)
    /\ scanner' = [scanner EXCEPT ![s] =
           IF scanPool.mongoClient # 0 THEN [@ EXCEPT !.pc = "closing"] ELSE IdleScanner]
    /\ UNCHANGED <<violations, userVehicles, oidCount, uuidCount, now, consumer, sweeper,
                   notified, resent, mailedTo, env, storePool>>

\* finally: the close returned; the module's references are reset and the
\* invocation ends.
ScanFinallyReset(s) ==
    /\ scanner[s].pc = "closing"
    /\ scanPool' = CloseEnd(scanPool)
    /\ scanner' = [scanner EXCEPT ![s] = IdleScanner]
    /\ UNCHANGED <<violations, userVehicles, oidCount, uuidCount, now, consumer, sweeper,
                   notified, resent, mailedTo, env, storePool>>

\* SIGTERM or SIGINT: process.on(..., cleanupResources) runs cleanupResources
\* whatever the invocations in flight are doing.
SignalClose ==
    /\ scanPool.signal = "none"
    /\ scanPool' = [CloseBegin(scanPool) EXCEPT !.signal =
           IF scanPool.mongoClient # 0 THEN "closing" ELSE "done"]
    /\ UNCHANGED <<violations, userVehicles, oidCount, uuidCount, now, consumer, scanner,
                   sweeper, notified, resent, mailedTo, env, storePool>>

\* The signal handler's close returned: the module's references are reset.
SignalReset ==
    /\ scanPool.signal = "closing"
    /\ scanPool' = [CloseEnd(scanPool) EXCEPT !.signal = "done"]
    /\ UNCHANGED <<violations, userVehicles, oidCount, uuidCount, now, consumer, scanner,
                   sweeper, notified, resent, mailedTo, env, storePool>>

\* Overlapping scanner runs and a shutdown signal in one process.
NextShutdown ==
    \/ \E s \in Scanners : ScanReadPooled(s)
    \/ \E s \in Scanners : ScanStartFails(s)
    \/ \E s \in Scanners : ScanSend(s)
    \/ \E s \in Scanners : ScanSendFails(s)
    \/ \E s \in Scanners : ScanMarkPooled(s)
    \/ \E s \in Scanners : ScanMarkFails(s)
    \/ \E s \in Scanners : ScanFinallyClose(s)
    \/ \E s \in Scanners : ScanFinallyReset(s)
    \/ SignalClose
    \/ SignalReset

SpecShutdown == InitBacklog(ShutdownBacklog) /\ [][NextShutdown]_vars

\* Overlapping scanner runs over a backlog while the clock runs.
NextOverlap ==
    \/ Tick
    \/ \E s \in Scanners : ScanStart(s)
    \/ \E s \in Scanners : ScanStartFails(s)
    \/ \E s \in Scanners : ScanSend(s)
    \/ \E s \in Scanners : ScanSendFails(s)
    \/ \E s \in Scanners : ScanMark(s)
    \/ \E s \in Scanners : ScanMarkFails(s)
    \/ \E s \in Scanners : ScanCleanup(s)

SpecOverlap == InitBacklog(ShutdownBacklog) /\ [][NextOverlap]_vars

\* A scanner run and a sweeper run interleaved over a backlog.
SpecSweep == InitBacklog(ScanBacklog) /\ [][NextConfig]_vars

\* ------------------------- the scanner's getMongoClient, await by await
\* getMongoClient() of the scanner module up to its await: with mongoClient
\* null a MongoClient is made and assigned before the connect is awaited
\* (database is assigned after it); otherwise the existing client is returned.
ScanMakeClient(pool) ==
    [pool EXCEPT !.mongoClient = pool.made + 1, !.made = pool.made + 1]

\* The run after getUnsentViolations threw: the handler rethrows.
ReadThrows == [IdleScanner EXCEPT !.pc = "cleanup", !.result = "thrown"]

\* The timer fires: getUnsentViolations calls getMongoClient(); with a client
\* assigned it returns at once, and database.collection("violations") throws
\* a TypeError when database is null; otherwise the read returns.
ScanEnter(s) ==
    /\ scanner[s].pc = "idle"
    /\ env.MONGODB_CONNECTION_STRING
    /\ scanPool.made < MaxClients
    /\ IF scanPool.mongoClient = 0
       THEN /\ scanPool' = ScanMakeClient(scanPool)
            /\ scanner' = [scanner EXCEPT ![s] = [IdleScanner EXCEPT !.pc = "connect"]]
       ELSE IF scanPool.database = 0
       THEN /\ scanPool' = [scanPool EXCEPT !.nullUse = TRUE]
            /\ scanner' = [scanner EXCEPT ![s] = ReadThrows]
       ELSE /\ scanPool' = scanPool
            /\ scanner' = [scanner EXCEPT ![s] = AfterRead(FindUnsent(violations))]
    /\ UNCHANGED <<violations, userVehicles, oidCount, uuidCount, now, consumer, sweeper,
                   notified, resent, mailedTo, env, storePool>>

\* await mongoClient.connect() returns in getUnsentViolations' getMongoClient:
\* database = mongoClient.db("geofence") of the module's mongoClient as it is
\* now (a TypeError when a cleanup has reset it to null), then the read.
ScanConnected(s) ==
    /\ scanner[s].pc = "connect"
    /\ IF scanPool.mongoClient = 0
       THEN /\ scanPool' = scanPool
            /\ scanner' = [scanner EXCEPT ![s] = ReadThrows]
       ELSE /\ scanPool' = [scanPool EXCEPT !.database = scanPool.mongoClient]
            /\ scanner' = [scanner EXCEPT ![s] = AfterRead(FindUnsent(violations))]
    /\ UNCHANGED <<violations, userVehicles, oidCount, uuidCount, now, consumer, sweeper,
                   notified, resent, mailedTo, env, storePool>>

\* await mongoClient.connect() throws: getUnsentViolations and the handler rethrow.
ScanConnectFails(s) ==
    /\ scanner[s].pc = "connect"
    /\ scanner' = [scanner EXCEPT ![s] = ReadThrows]
    /\ UNCHANGED <<violations, userVehicles, oidCount, uuidCount, now, consumer, sweeper,
                   notified, resent, mailedTo, env, storePool, scanPool>>

\* markViolationAsWarned calls getMongoClient(): with no client one is made
\* and its connect awaited; with a client and database null
\* database.collection("violations") throws a TypeError, which the loop's
\* catch counts as a failure; otherwise the update returns.
ScanMarkEnter(s) ==
    /\ scanner[s].pc = "mark"
    /\ env.MONGODB_CONNECTION_STRING
    /\ scanPool.made < MaxClients
    /\ IF scanPool.mongoClient = 0
       THEN /\ scanPool' = ScanMakeClient(scanPool)
            /\ scanner' = [scanner EXCEPT ![s].pc = "markConnect"]
            /\ UNCHANGED violations
       ELSE IF scanPool.database = 0
       THEN /\ scanPool' = [scanPool EXCEPT !.nullUse = TRUE]
            /\ scanner' = [scanner EXCEPT ![s] = AfterFailure(@)]
            /\ UNCHANGED violations
       ELSE /\ scanPool' = scanPool
            /\ violations' = UpdateOne(violations, Current(scanner[s]).violationId, now).coll
            /\ scanner' = [scanner EXCEPT ![s] = AfterSuccess(@)]
    /\ UNCHANGED <<userVehicles, oidCount, uuidCount, now, consumer, sweeper,
                   notified, resent, mailedTo, env, storePool>>

\* await mongoClient.connect() returns in markViolationAsWarned's
\* getMongoClient: database is assigned (a TypeError when mongoClient was
\* reset to null meanwhile), then the update.
ScanMarkConnected(s) ==
    /\ scanner[s].pc = "markConnect"
    /\ IF scanPool.mongoClient = 0
       THEN /\ scanPool' = scanPool
            /\ scanner' = [scanner EXCEPT ![s] = AfterFailure([@ EXCEPT !.pc = "mark"])]
            /\ UNCHANGED violations
       ELSE /\ scanPool' = [scanPool EXCEPT !.database = scanPool.mongoClient]
            /\ violations' = UpdateOne(violations, Current(scanner[s]).violationId, now).coll
            /\ scanner' = [scanner EXCEPT ![s] = AfterSuccess([@ EXCEPT !.pc = "mark"])]
    /\ UNCHANGED <<userVehicles, oidCount, uuidCount, now, consumer, sweeper,
                   notified, resent, mailedTo, env, storePool>>

\* await mongoClient.connect() throws in markViolationAsWarned: the loop's
\* catch counts a failure.
ScanMarkConnectFails(s) ==
    /\ scanner[s].pc = "markConnect"
    /\ scanner' = [scanner EXCEPT ![s] = AfterFailure([@ EXCEPT !.pc = "mark"])]
    /\ UNCHANGED <<violations, userVehicles, oidCount, uuidCount, now, consumer, sweeper,
                   notified, resent, mailedTo, env, storePool, scanPool>>

\* Overlapping scanner runs in one process from a cold start, each ending in
\* its finally block's cleanupResources.
NextColdStart ==
    \/ \E s \in Scanners : ScanEnter(s)
    \/ \E s \in Scanners : ScanConnected(s)
    \/ \E s \in Scanners : ScanConnectFails(s)
    \/ \E s \in Scanners : ScanSend(s)
    \/ \E s \in Scanners : ScanSendFails(s)
    \/ \E s \in Scanners : ScanMarkEnter(s)
    \/ \E s \in Scanners : ScanMarkConnected(s)
    \/ \E s \in Scanners : ScanMarkConnectFails(s)
    \/ \E s \in Scanners : ScanMarkFails(s)
    \/ \E s \in Scanners : ScanFinallyClose(s)
    \/ \E s \in Scanners : ScanFinallyReset(s)

SpecColdStart == InitBacklog(ShutdownBacklog) /\ [][NextColdStart]_vars

\* ------------------------------------------------------------------ claims
\* The stored document with this violationId is marked as warned.
IsSent(violationId) == \E v \in violations : v.violationId = violationId /\ v.warningSent

\* The documents a step removes from the collection.
Removed == {v \in violations : ~\E w \in violations' : w._id = v._id}

\* C1: for any interleaving of consumer invocations, overlapping scanner runs
\* and sweeper runs, every document that a step removes from the collection
\* has warningSent = true at the moment of the delete.
C1_PurgeNeverDeletesUnsent == [][\A v \in Removed : v.warningSent = TRUE]_vars

\* C1 witness: the sweeper has deleted while an unsent document is in the
\* collection and a scanner run is in its loop.
C1_Witness ==
    \E p \in Sweepers, s \in Scanners :
        /\ sweeper[p].pc = "countAfter" /\ sweeper[p].deletedCount >= 1
        /\ scanner[s].pc \in {"send", "mark"}
        /\ \E v \in violations : v.warningSent = FALSE

\* C2 (as stated): the notifier completes a successful send for a given
\* violationId at most once.
C2_SentAtMostOnce == resent = {}

\* A run's list holds no violationId twice.
C2_ListDistinct ==
    \A s \in Scanners : \A j, k \in 1..Len(scanner[s].violations) :
        j # k => scanner[s].violations[j].violationId # scanner[s].violations[k].violationId

\* A step of the run s that reads the collection reads only unsent documents.
C2_ReadsUnsent(s) ==
    (scanner[s].pc = "idle" /\ scanner'[s].pc = "send") =>
        \A k \in 1..Len(scanner'[s].violations) :
            /\ scanner'[s].violations[k] \in violations
            /\ scanner'[s].violations[k].warningSent = FALSE

\* A delivered e-mail is the one of the record some run is at, and that run
\* moves on to the mark of this record.
C2_SendIsOfCurrent ==
    (notified' # notified \/ resent' # resent) =>
        \E s \in Scanners :
            /\ scanner[s].pc = "send" /\ scanner'[s].pc = "mark"
            /\ scanner'[s].i = scanner[s].i
            /\ notified' = notified \cup {Current(scanner[s]).violationId}

\* Within a run the loop only moves forward: a record is not sent for twice.
C2_LoopForward(s) ==
    (scanner[s].pc \in {"send", "mark"} /\ scanner'[s] # scanner[s]) =>
        \/ scanner[s].pc = "send" /\ scanner'[s].pc = "mark" /\ scanner'[s].i = scanner[s].i
        \/ scanner'[s].i = scanner[s].i + 1 /\ scanner'[s].violations = scanner[s].violations

\* C2 (amended): a run sends only for records that were unsent when it read
\* the collection, and at most once for each of them; a record already marked
\* when a run reads is never sent for by that run.  Across runs a violationId
\* may be sent for more than once.
C2_SendsOnlyForUnsentRead ==
    /\ []C2_ListDistinct
    /\ [][/\ \A s \in Scanners : C2_ReadsUnsent(s) /\ C2_LoopForward(s)
          /\ C2_SendIsOfCurrent]_vars

\* C2 witness: two overlapping runs have both sent for the same record.
C2_Witness ==
    \E s, t \in Scanners :
        /\ s # t
        /\ scanner[s].pc = "mark" /\ scanner[t].pc = "mark"
        /\ Current(scanner[s]).violationId = Current(scanner[t]).violationId
        /\ Current(scanner[s]).violationId \in resent

\* C3 (as stated): markViolationAsWarned on a record that is already marked
\* matches nothing, modifies nothing and leaves the collection unchanged.
C3_MarkOfSentIsNoOp ==
    \A s \in Scanners :
        (scanner[s].pc = "mark" /\ IsSent(Current(scanner[s]).violationId)) =>
            LET result == UpdateOne(violations, Current(scanner[s]).violationId, now)
            IN  result.matchedCount = 0 /\ result.modifiedCount = 0 /\ result.coll = violations

\* The fix of the invocation c is outside the geofence.
IsOutside(c) ==
    IsWithinGeofence(consumer[c].msg.longitude, consumer[c].msg.latitude) = "outside"

\* The fix of the invocation c (in the state after the step) is inside.
IsInsideAfter(c) ==
    IsWithinGeofence(consumer'[c].msg.longitude, consumer'[c].msg.latitude) = "inside"

\* The step is the return of storeViolation in the invocation c.
StoreReturns(c) ==
    /\ consumer[c].pc = "store" /\ consumer'[c].pc = "done"
    /\ consumer'[c].dbError = FALSE

\* The documents a step adds to the collection.
Added == {w \in violations' : ~\E v \in violations : v._id = w._id}

\* C4: an invocation for an outside fix of an owned vehicle whose lookup and
\* insert succeed adds exactly one document, with warningSent = false and the
\* fields of the fix and of the owner; nothing else is added, and no other
\* step of a consumer changes the collection.
C4_OneUnsentViolationPerFix ==
    [][/\ \A c \in Consumers : StoreReturns(c) =>
              /\ IsOutside(c)
              /\ FindOne(userVehicles, consumer[c].msg.vehicleId) # {}
              /\ Cardinality(Added) = 1
              /\ violations \subseteq violations'
              /\ \A w \in Added :
                    /\ w.warningSent = FALSE
                    /\ w.vehicleId = consumer[c].msg.vehicleId
                    /\ w.latitude = consumer[c].msg.latitude
                    /\ w.longitude = consumer[c].msg.longitude
                    /\ w.timestamp = consumer[c].msg.timestamp
                    /\ \E u \in userVehicles : u.vid = w.vehicleId /\ u.email = w.email
       /\ (violations' # violations) => \E c \in Consumers : StoreReturns(c)]_vars

\* C4 witness: an invocation has returned from a successful insert and its
\* unsent document is in the collection.
C4_Witness ==
    \E c \in Consumers :
        /\ consumer[c].pc = "done" /\ consumer[c].result = "completed"
        /\ consumer[c].dbError = FALSE /\ "insertOne" \in consumer[c].ops
        /\ \E v \in violations :
              v.vehicleId = consumer[c].msg.vehicleId /\ v.warningSent = FALSE
                 /\ v.email = "b@x.com"

\* C5: an invocation for an inside fix ends in the step that received it,
\* completes without error, performs no store operation and leaves the
\* collection as it was.
C5_InsideFixIsNoOp ==
    [][\A c \in Consumers :
          (consumer[c].pc = "idle" /\ consumer'[c].pc # "idle" /\ IsInsideAfter(c)) =>
              /\ consumer'[c].pc = "done"
              /\ consumer'[c].result = "completed"
              /\ consumer'[c].ops = {}
              /\ consumer'[c].dbError = FALSE
              /\ violations' = violations]_vars

\* C5 witness: an inside fix has been handled while the collection holds a
\* document.
C5_Witness ==
    \E c \in Consumers :
        /\ consumer[c].pc = "done" /\ consumer[c].msg = FixInside
        /\ consumer[c].result = "completed"
        /\ violations # {}

\* C6: an invocation for an outside fix of a vehicle with no ownership record
\* never reaches the insert, completes normally, and no document of such a
\* vehicle is in the collection.
C6_NoOwnerIsDropped ==
    /\ \A c \in Consumers :
          (consumer[c].pc # "idle" /\ IsOutside(c)
              /\ FindOne(userVehicles, consumer[c].msg.vehicleId) = {}) =>
              /\ consumer[c].pc # "store"
              /\ "insertOne" \notin consumer[c].ops
              /\ consumer[c].pc = "done" => consumer[c].result = "completed"
    /\ \A v \in violations : FindOne(userVehicles, v.vehicleId) # {}

\* C6 witness: the lookup of an unowned vehicle has returned null and the
\* invocation has completed.
C6_Witness ==
    \E c \in Consumers :
        /\ consumer[c].pc = "done" /\ consumer[c].msg = FixNoOwner
        /\ consumer[c].ops = {"findOne"} /\ consumer[c].dbError = FALSE
        /\ consumer[c].result = "completed"

\* C7 (as stated): an invocation in which the ownership lookup or the insert
\* failed ends by throwing to the caller.
C7_StoreFailureIsThrown ==
    \A c \in Consumers :
        (consumer[c].pc = "done" /\ consumer[c].dbError) => consumer[c].result = "thrown"

\* The documents agree on vehicleId, email, latitude, longitude and timestamp.
SameEvent(v, w) ==
    /\ v.vehicleId = w.vehicleId /\ v.email = w.email
    /\ v.latitude = w.latitude /\ v.longitude = w.longitude
    /\ v.timestamp = w.timestamp

\* C10: the consumer does not deduplicate: every successful delivery adds a
\* document whatever the collection holds, also a still unsent document of the
\* same event, and the documents are pairwise different in violationId.
C10_NoDedupDistinctIds ==
    /\ [](\A v, w \in violations : v # w => v.violationId # w.violationId)
    /\ [][\A c \in Consumers : StoreReturns(c) =>
             /\ Cardinality(violations') = Cardinality(violations) + 1
             /\ \A w \in Added : \A v \in violations : v.violationId # w.violationId]_vars

\* C10 witness: two deliveries of the same event have left two unsent
\* documents that differ in violationId only among the event's fields.
C10_Witness ==
    \E v, w \in violations :
        /\ v.violationId # w.violationId
        /\ SameEvent(v, w)
        /\ v.warningSent = FALSE /\ w.warningSent = FALSE
        /\ Cardinality(violations) = MaxViolations

\* The records of the run's list that are marked / not marked in the collection.
SentOfList(run) ==
    {k \in 1..Len(run.violations) : IsSent(run.violations[k].violationId)}
UnsentOfList(run) ==
    {k \in 1..Len(run.violations) :
        \E v \in violations : v.violationId = run.violations[k].violationId
                                 /\ v.warningSent = FALSE}

\* A step of the run s in its loop: the send returns, or the record is done
\* with a success (it is marked in the collection) or with a failure (the
\* collection is as it was), and the loop goes to the next record.
C8_LoopStep(s) ==
    (scanner[s].pc \in {"send", "mark"} /\ scanner'[s] # scanner[s]) =>
        /\ \/ /\ scanner[s].pc = "send" /\ scanner'[s].pc = "mark"
              /\ scanner'[s].i = scanner[s].i
              /\ scanner'[s].successCount = scanner[s].successCount
              /\ scanner'[s].failCount = scanner[s].failCount
              /\ violations' = violations
           \/ /\ scanner[s].pc = "mark"
              /\ scanner'[s].i = scanner[s].i + 1
              /\ scanner'[s].successCount = scanner[s].successCount + 1
              /\ scanner'[s].failCount = scanner[s].failCount
              /\ Current(scanner[s]).violationId \in notified
              /\ \E v \in violations' :
                    v.violationId = Current(scanner[s]).violationId /\ v.warningSent
              /\ \A v \in violations :
                    v.violationId # Current(scanner[s]).violationId => v \in violations'
           \/ /\ scanner'[s].i = scanner[s].i + 1
              /\ scanner'[s].successCount = scanner[s].successCount
              /\ scanner'[s].failCount = scanner[s].failCount + 1
              /\ violations' = violations
        /\ scanner'[s].pc \in {"send", "mark", "cleanup"}
        /\ scanner'[s].pc = "cleanup" <=> scanner'[s].i = Len(scanner[s].violations) + 1
        /\ scanner'[s].violations = scanner[s].violations

\* The counts of a run that has gone through the records 1..i-1 of its list.
C8_Counts ==
    \A s \in Scanners :
        scanner[s].pc \in {"send", "mark", "cleanup"} /\ scanner[s].result # "thrown" =>
            LET run == scanner[s]
                done == IF run.pc = "cleanup" THEN Len(run.violations) ELSE run.i - 1
            IN  /\ run.successCount + run.failCount = done
                /\ run.successCount = Cardinality(SentOfList(run))
                /\ run.failCount = Cardinality(UnsentOfList(run) \cap 1..done)
                /\ SentOfList(run) \cup UnsentOfList(run) = 1..Len(run.violations)

\* C8: in a scanner run over N unsent records with nothing else writing the
\* store, a failing send or mark does not end the run: every record is gone
\* through in turn, the records whose send and mark both returned are marked,
\* the others are still unsent, successCount + failCount = N and failCount is
\* the number of records that failed.
C8_FailureDoesNotAbortRun == []C8_Counts /\ [][\A s \in Scanners : C8_LoopStep(s)]_vars

\* C8 witness: 3 unsent records, the 2nd fails: 2 marked, 1 unsent,
\* successCount 2, failCount 1.
C8_Witness ==
    \E s \in Scanners :
        /\ scanner[s].pc = "cleanup" /\ Len(scanner[s].violations) = 3
        /\ scanner[s].successCount = 2 /\ scanner[s].failCount = 1
        /\ SentOfList(scanner[s]) = {1, 3} /\ UnsentOfList(scanner[s]) = {2}

\* The marked / unmarked documents of the collection.
SentDocs(coll) == {v \in coll : v.warningSent = TRUE}
UnsentDocs(coll) == {v \in coll : v.warningSent = FALSE}

\* A step that changes the collection is the delete of a sweeper run: it
\* returns having removed exactly the marked documents, or it throws having
\* removed some of them; the unmarked documents stay as they are.
C9_DeleteStep ==
    (violations' # violations) =>
        /\ UnsentDocs(violations') = UnsentDocs(violations)
        /\ \E p \in Sweepers :
              /\ sweeper[p].pc = "delete"
              /\ \/ /\ sweeper'[p].pc = "countAfter"
                    /\ violations' = UnsentDocs(violations)
                    /\ sweeper'[p].deletedCount = Cardinality(SentDocs(violations))
                    /\ sweeper'[p].deletedCount = sweeper[p].countBefore
                 \/ /\ sweeper'[p].pc = "cleanup" /\ sweeper'[p].result = "thrown"
                    /\ violations' \subseteq violations

\* The report of a run that returned.
C9_Report ==
    \A p \in Sweepers :
        (sweeper[p].pc = "cleanup" /\ sweeper[p].result = "completed") =>
            /\ SentDocs(violations) = {}
            /\ sweeper[p].deletedCount = sweeper[p].countBefore
            /\ Cardinality(violations) = sweeper[p].countBeforePurge - sweeper[p].deletedCount
            /\ Cardinality(UnsentDocs(violations)) = sweeper[p].countAfterPurge

\* C9: a sweeper run with nothing else writing the store deletes exactly the
\* documents that are marked when it starts: the collection changes in the
\* delete only, deletedCount is the number of marked documents, and every
\* unmarked document is still there, unchanged.
C9_PurgeDeletesExactlySent == []C9_Report /\ [][C9_DeleteStep]_vars

\* C9 witness: 5 marked and 2 unmarked documents: 5 deleted, 2 remain.
C9_Witness ==
    \E p \in Sweepers :
        /\ sweeper[p].pc = "cleanup" /\ sweeper[p].result = "completed"
        /\ sweeper[p].countBeforePurge = 7 /\ sweeper[p].countBefore = 5
        /\ sweeper[p].deletedCount = 5 /\ sweeper[p].countAfterPurge = 2
        /\ Cardinality(UnsentDocs(violations)) = 2 /\ Cardinality(violations) = 2

\* C11: a stored document that is marked as warned stays marked in every later
\* state for as long as it is stored: no step of a consumer, a scanner run or
\* a sweeper run takes a document from warningSent = true to false.
C11_NeverReopened ==
    [][\A v \in violations : v.warningSent = TRUE =>
          \A w \in violations' : w._id = v._id => w.warningSent = TRUE]_vars

\* C11 witness: two overlapping runs have both marked the same record (the
\* second mark was of a record already marked) and it is still marked.
C11_Witness ==
    \E s, t \in Scanners :
        /\ s # t
        /\ scanner[s].successCount >= 1 /\ scanner[t].successCount >= 1
        /\ Len(scanner[s].violations) >= 1 /\ Len(scanner[t].violations) >= 1
        /\ scanner[s].violations[1].violationId = scanner[t].violations[1].violationId
        /\ scanner[s].failCount = 0 /\ scanner[t].failCount = 0
        /\ IsSent(scanner[s].violations[1].violationId)

\* The elements of a sequence.
Range(list) == {list[k] : k \in 1..Len(list)}

\* C12: in every reachable state each stored document is either unsent or
\* sent, never both and never neither; the scanner's read returns exactly the
\* unsent documents and the sweeper's delete filter matches exactly the sent
\* ones.
C12_VisibleIffUnsent ==
    /\ \A v \in violations : v.warningSent \in BOOLEAN
    /\ Range(FindUnsent(violations)) = UnsentDocs(violations)
    /\ PurgeTargets(violations) = SentDocs(violations)
    /\ \A v \in violations : UnsentFilter(v) <=> ~PurgeFilter(v)
    /\ Range(FindUnsent(violations)) \cap PurgeTargets(violations) = {}
    /\ Range(FindUnsent(violations)) \cup PurgeTargets(violations) = violations

\* C12 witness: the collection holds a sent and an unsent document; a scanner
\* run has read the unsent one only and a sweeper run is at its delete.
C12_Witness ==
    \E s \in Scanners, p \in Sweepers :
        /\ scanner[s].pc = "send" /\ Len(scanner[s].violations) = 1
        /\ scanner[s].violations[1] \in UnsentDocs(violations)
        /\ SentDocs(violations) # {}
        /\ sweeper[p].pc = "delete"

\* Every marked document has a delivered e-mail.
C13_SentWasNotified ==
    \A v \in violations : v.warningSent = TRUE => v.violationId \in notified

\* C13: a document is marked as warned only after an e-mail for its
\* violationId was delivered, also under overlapping scanner runs: every
\* marked document, and every document a sweeper removes, has a delivered
\* e-mail.
C13_SentOnlyAfterSend ==
    /\ []C13_SentWasNotified
    /\ [][\A v \in Removed : v.violationId \in notified]_vars

\* C13 witness: a sweeper run has deleted a notified document while another
\* marked document, sent for by two overlapping runs, is stored.
C13_Witness ==
    \E p \in Sweepers :
        /\ sweeper[p].pc = "countAfter" /\ sweeper[p].deletedCount >= 1
        /\ \E id \in notified : ~\E v \in violations : v.violationId = id
        /\ \E v \in violations : v.warningSent = TRUE /\ v.violationId \in resent

\* A step of the run s that ends a record: with a success the record is marked
\* in the collection; with a failure (of the send, or of the mark after a
\* delivered e-mail) the record is counted as failed and the collection is as
\* it was, so a record that was unsent is still unsent.
C14_RecordStep(s) ==
    (scanner[s].pc \in {"send", "mark"} /\ scanner'[s].i = scanner[s].i + 1) =>
        \/ /\ scanner[s].pc = "mark"
           /\ scanner'[s].successCount = scanner[s].successCount + 1
           /\ scanner'[s].failCount = scanner[s].failCount
           /\ \A v \in violations' :
                 v.violationId = Current(scanner[s]).violationId => v.warningSent = TRUE
           /\ \A v \in UnsentDocs(violations) :
                 v.violationId = Current(scanner[s]).violationId => v \notin violations'
        \/ /\ scanner'[s].successCount = scanner[s].successCount
           /\ scanner'[s].failCount = scanner[s].failCount + 1
           /\ violations' = violations
           /\ notified' = notified

\* A step of the run s that reads the collection reads every unsent document.
C14_ReadsAllUnsent(s) ==
    (scanner[s].pc = "idle" /\ scanner'[s].result # "thrown" /\ scanner'[s] # scanner[s]) =>
        /\ Range(scanner'[s].violations) = UnsentDocs(violations)
        /\ scanner'[s].pc = "send" <=> UnsentDocs(violations) # {}

\* C14: a record whose send fails, or whose send succeeds and whose mark
\* fails, is counted as failed and is left as it was in the store; every later
\* scanner run reads every unsent record, this one included, and attempts it
\* again.
C14_FailedRecordIsRetried ==
    [][\A s \in Scanners : C14_RecordStep(s) /\ C14_ReadsAllUnsent(s)]_vars

\* C14 witness: a run is at the send of a record that is unsent in the store
\* and has a delivered e-mail of an earlier run (whose mark failed), no other
\* run being in flight.
C14_Witness ==
    \E s \in Scanners :
        /\ scanner[s].pc = "send"
        /\ Current(scanner[s]).violationId \in notified
        /\ Current(scanner[s]) \in UnsentDocs(violations)
        /\ \A t \in Scanners \ {s} : scanner[t].pc = "idle"

\* A document with this violationId is stored.
Stored(violationId) == \E v \in violations : v.violationId = violationId

\* C15: under fair scheduling of the scanner and sweeper timers, with the
\* notifier and the store eventually succeeding for every record, every stored
\* document is eventually marked as warned and eventually deleted.
C15_EventuallySentAndPurged ==
    \A id \in 1..MaxViolations :
        /\ Stored(id) ~> IsSent(id)
        /\ Stored(id) ~> ~Stored(id)

\* C15 witness: a violation was created, notified and deleted, after a failed
\* attempt was tried again.
C15_Witness ==
    /\ uuidCount >= 1 /\ ~Stored(1) /\ 1 \in resent
    /\ sweeper["p1"].pc = "countAfter" /\ sweeper["p1"].deletedCount >= 1

\* C16 (as stated): a sweeper run does not remove a document that has just
\* been marked as warned (marked at the present reading of the clock, so not
\* past any retention period).
C16_PurgeRespectsRetention ==
    [][\A v \in Removed : v.warningSentAt # <<now>>]_vars

\* C17 (as stated): a scanner or sweeper run that needs a resource whose
\* connection string is not configured ends by throwing to the runtime; it
\* does not complete normally.
C17_MissingConfigIsThrown ==
    /\ \A s \in Scanners :
          (scanner[s].pc = "cleanup" /\ ~env.MONGODB_CONNECTION_STRING) =>
              scanner[s].result = "thrown"
    /\ \A s \in Scanners :
          (scanner[s].pc = "cleanup" /\ ~env.COMMUNICATION_SERVICES_CONNECTION_STRING
              /\ Len(scanner[s].violations) > 0) => scanner[s].result = "thrown"
    /\ \A p \in Sweepers :
          (sweeper[p].pc = "cleanup" /\ ~env.MONGODB_CONNECTION_STRING) =>
              sweeper[p].result = "thrown"

\* C20 (as stated): the e-mail of a new document is the e-mail of the
\* ownership record of its vehicle at the moment the document is inserted.
C20_EmailIsOwnerAtInsert ==
    [][\A c \in Consumers : StoreReturns(c) =>
          \A w \in Added : \E u \in userVehicles : u.vid = w.vehicleId /\ u.email = w.email]_vars

\* The lookup of the invocation c returns a record of the ownership collection
\* as it is at the lookup.
C20_LookupReadsOwnership(c) ==
    (consumer[c].pc = "lookup" /\ consumer'[c].pc = "store") =>
        /\ consumer'[c].vehicleRecord \in userVehicles
        /\ consumer'[c].vehicleRecord.vid = consumer[c].msg.vehicleId

\* The insert of the invocation c stores the e-mail its lookup returned.
C20_StoresLookedUpEmail(c) ==
    StoreReturns(c) =>
        \A w \in Added : /\ w.email = consumer[c].vehicleRecord.email
                         /\ w.vehicleId = consumer[c].vehicleRecord.vid

\* No step changes the e-mail of a stored document.
C20_EmailIsKept ==
    \A v \in violations : \A w \in violations' : w._id = v._id => w.email = v.email

\* A delivered e-mail went to the address stored in the document.
C20_SendsToStoredEmail ==
    \A m \in mailedTo' \ mailedTo :
        \E s \in Scanners :
            /\ scanner[s].pc = "send" /\ Current(scanner[s]).violationId = m.violationId
            /\ \E v \in violations : v.violationId = m.violationId /\ v.email = m.to

\* C20 (amended): the e-mail stored in a document is the e-mail of the
\* ownership record of its vehicle as the creating invocation's lookup read
\* it (ownership V1 -> a@x.com gives a document with a@x.com), which may
\* differ from the ownership record at the insert if the ownership changed in
\* between; no later change of the ownership record changes it, and the
\* scanner sends to the stored e-mail.
C20_EmailDenormalisedAtLookup ==
    [][/\ \A c \in Consumers : C20_LookupReadsOwnership(c) /\ C20_StoresLookedUpEmail(c)
       /\ C20_EmailIsKept
       /\ C20_SendsToStoredEmail]_vars

\* C20 witness: a document of V1 holds a@x.com, the ownership of V1 has
\* changed to c@x.com, and the e-mail for the document went to a@x.com.
C20_Witness ==
    \E v \in violations :
        /\ v.vehicleId = "V1" /\ v.email = "a@x.com"
        /\ ChangedOwner \in userVehicles
        /\ [violationId |-> v.violationId, to |-> "a@x.com"] \in mailedTo
        /\ v.warningSent = TRUE

\* C18 (as stated): concurrent invocations that call getMongoClient while no
\* client is open construct and connect one client and reuse it: no two
\* clients of a module are live at the same time.
C18_OneLiveClient == Cardinality(storePool.connected) <= 1

\* C19 (as stated): while an invocation is between its read and the end of its
\* per-record sends and marks, the module's client is neither closed nor reset
\* to null by a signal handler or by another run's finally block.
C19_NoReleaseInFlight ==
    \A s \in Scanners :
        scanner[s].pc \in {"send", "mark"} =>
            /\ scanPool.mongoClient # 0
            /\ scanPool.mongoClient \notin scanPool.closed

\* No two stored documents have the same violationId.
C21_Unique ==
    \A v, w \in violations : v.violationId = w.violationId => v = w

\* C21: in every reachable state no two stored documents have the same
\* violationId; the violationId of a stored document never changes; and a
\* step of a scanner run (a mark keyed by violationId) changes at most one
\* document.
C21_ViolationIdIsKey ==
    /\ []C21_Unique
    /\ [][/\ \A v \in violations : \A w \in violations' :
                w._id = v._id => w.violationId = v.violationId
          /\ (scanner' # scanner) => Cardinality(violations \ violations') <= 1]_vars

\* C21 witness: of two stored documents a scanner run has marked one, the
\* other is unsent.
C21_Witness ==
    \E s \in Scanners :
        /\ scanner[s].successCount = 1
        /\ Cardinality(violations) = 2
        /\ Cardinality(SentDocs(violations)) = 1
        /\ Cardinality(UnsentDocs(violations)) = 1

\* The collection the sweeper runs started from (no scanner runs: the
\* notified documents are the marked ones of the start).
C22_Start == Backlog(PurgeBacklog, notified)

\* The collection only shrinks, and only by marked documents of the start.
C22_OnlyMarkedGo ==
    /\ violations \subseteq C22_Start
    /\ UnsentDocs(violations) = UnsentDocs(C22_Start)

\* A run that returned leaves the collection as one complete run leaves it.
C22_AsOneRun ==
    \A p \in Sweepers :
        (sweeper[p].pc = "cleanup" /\ sweeper[p].result = "completed") =>
            /\ violations = UnsentDocs(C22_Start)
            /\ sweeper[p].countBefore = 0 => sweeper[p].deletedCount = 0

\* A run that counts no marked document does not delete.
C22_NothingToDelete ==
    \A p \in Sweepers :
        (sweeper[p].pc = "countSent" /\ sweeper'[p].pc # "countSent"
            /\ sweeper'[p].result # "thrown" /\ SentDocs(violations) = {}) =>
            /\ sweeper'[p].pc = "countAfter"
            /\ sweeper'[p].deletedCount = 0
            /\ violations' = violations

\* C22: sweeper runs one after another, with nothing else writing the store,
\* whether the earlier ones returned or failed part-way: each deletes only
\* marked documents that are still stored, a run that returns leaves exactly
\* the unmarked documents of the start, and a run that finds no marked
\* document deletes nothing and reports a deleted count of 0.
C22_PurgeIsIdempotent ==
    /\ [](C22_OnlyMarkedGo /\ C22_AsOneRun)
    /\ [][C22_NothingToDelete /\ violations' \subseteq violations]_vars

\* C22 witness: a run has returned that deleted what an earlier, partly
\* failed run had left: fewer documents than were marked at the start.
C22_Witness ==
    \E p \in Sweepers :
        /\ sweeper[p].pc = "cleanup" /\ sweeper[p].result = "completed"
        /\ sweeper[p].deletedCount >= 1
        /\ sweeper[p].deletedCount < Cardinality(SentDocs(C22_Start))
        /\ violations = UnsentDocs(C22_Start)

\* warningSentAt is absent on unsent and present on sent documents.
C23_SetIffSent ==
    \A v \in violations : (v.warningSentAt # Absent) <=> (v.warningSent = TRUE)

\* C23 (as stated): warningSentAt is absent on every unsent document, present
\* on every sent one, and once set it is not changed by any step, a second
\* mark of the same violationId included.
C23_WarningSentAtSetOnce ==
    /\ []C23_SetIffSent
    /\ [][\A v \in violations : \A w \in violations' :
             (w._id = v._id /\ v.warningSentAt # Absent) =>
                 w.warningSentAt = v.warningSentAt]_vars

\* C25: a step of a consumer only adds a document; a step of a scanner run
\* neither adds nor removes one; a step of a sweeper run only removes; and a
\* stored document keeps its violationId, vehicleId, email, latitude,
\* longitude, timestamp and created from its insert to its delete.
C25_FrameOfTheCollection ==
    [][/\ (consumer' # consumer) =>
              /\ violations \subseteq violations'
              /\ Cardinality(violations') <= Cardinality(violations) + 1
       /\ (scanner' # scanner) =>
              {v._id : v \in violations} = {w._id : w \in violations'}
       /\ (sweeper' # sweeper) => violations' \subseteq violations
       /\ \A v \in violations : \A w \in violations' :
              w._id = v._id =>
                  /\ SameEvent(v, w)
                  /\ w.violationId = v.violationId
                  /\ w.created = v.created]_vars

\* C25 witness: a document has been inserted, one marked and one deleted.
C25_Witness ==
    \E p \in Sweepers, s \in Scanners :
        /\ sweeper[p].deletedCount >= 1
        /\ scanner[s].successCount >= 1
        /\ SentDocs(violations) # {}
        /\ consumer["c1"].pc = "done" /\ "insertOne" \in consumer["c1"].ops
        /\ consumer["c1"].dbError = FALSE

\* The evaluator throws on the fix of the invocation c.
EvaluatorThrows(c) ==
    IsWithinGeofence(consumer[c].msg.longitude, consumer[c].msg.latitude) = "throws"

\* C26: an invocation in which the evaluator throws ends, in the step that
\* received the message, by throwing to the caller; it performs no ownership
\* lookup and no insert, and the collection is as it was.
C26_EvaluatorErrorPropagates ==
    /\ [](\A c \in Consumers :
            (consumer[c].pc # "idle" /\ EvaluatorThrows(c)) =>
                /\ consumer[c].pc = "done"
                /\ consumer[c].result = "thrown"
                /\ consumer[c].ops = {}
                /\ consumer[c].dbError = FALSE)
    /\ [][\A c \in Consumers :
            (consumer[c].pc = "idle" /\ consumer'[c].pc # "idle"
                /\ consumer'[c].msg = FixMalformed) => violations' = violations]_vars

\* C26 witness: the malformed fix has been received and the invocation has
\* thrown, with a document stored by an earlier invocation.
C26_Witness ==
    \E c \in Consumers :
        /\ consumer[c].pc = "done" /\ consumer[c].msg = FixMalformed
        /\ consumer[c].result = "thrown" /\ consumer[c].ops = {}
        /\ violations # {}

\* C28 (as stated): a step that counts a success of the run s is a mark that
\* took the record from unsent to sent.
C28_SuccessIsOwnTransition ==
    [][\A s \in Scanners :
          (scanner[s].pc = "mark" /\ scanner'[s].successCount = scanner[s].successCount + 1) =>
              /\ Current(scanner[s]).violationId \in {v.violationId : v \in UnsentDocs(violations)}
              /\ Current(scanner[s]).violationId \in {v.violationId : v \in SentDocs(violations')}]_vars

\* The report of a run that returned: purgedCount (deletedCount) is
\* violationsCountBefore - violationsCountAfter, and with no scanner activity
\* it is the number of marked documents counted before the delete.
C29_ReportAdds ==
    \A p \in Sweepers :
        (sweeper[p].pc = "cleanup" /\ sweeper[p].result = "completed") =>
            /\ sweeper[p].deletedCount = sweeper[p].countBeforePurge - sweeper[p].countAfterPurge
            /\ sweeper[p].deletedCount >= sweeper[p].countBefore
            /\ mailedTo = {} => sweeper[p].deletedCount = sweeper[p].countBefore

\* The delete removes the documents that are marked at the delete, and
\* reports their number.
C29_DeletesMarkedAtDelete ==
    \A p \in Sweepers :
        (sweeper[p].pc = "delete" /\ sweeper'[p].pc = "countAfter") =>
            /\ \A v \in Removed : v.warningSent = TRUE
            /\ sweeper'[p].deletedCount = Cardinality(SentDocs(violations))
            /\ violations' = UnsentDocs(violations)

\* C29: the report of a sweeper run that returned is consistent:
\* purgedCount = violationsCountBefore - violationsCountAfter, and
\* purgedCount is the number of marked documents counted before the delete
\* when no scanner operation interleaves; when a scanner run marks documents
\* between the count and the delete, every document the run deletes is marked
\* at the delete.
C29_ReportIsConsistent ==
    []C29_ReportAdds /\ [][C29_DeletesMarkedAtDelete]_vars

\* C29 witness: a run has returned that deleted more documents than it had
\* counted, a scanner run having marked one in between.
C29_Witness ==
    \E p \in Sweepers :
        /\ sweeper[p].pc = "cleanup" /\ sweeper[p].result = "completed"
        /\ sweeper[p].deletedCount > sweeper[p].countBefore
        /\ sweeper[p].countBefore >= 1
        /\ sweeper[p].deletedCount = sweeper[p].countBeforePurge - sweeper[p].countAfterPurge

\* A store call (connect, findOne or insertOne) of the invocation c failed.
StoreFailed(c) == consumer[c].dbError /\ "nullDatabase" \notin consumer[c].ops

\* An invocation for an outside fix of an owned vehicle that has ended with
\* no store call failing has inserted its document, and no invocation has
\* found database null.
C24_NoneLost ==
    \A c \in Consumers :
        /\ "nullDatabase" \notin consumer[c].ops
        /\ (consumer[c].pc = "done" /\ IsOutside(c) /\ ~StoreFailed(c)
               /\ FindOne(userVehicles, consumer[c].msg.vehicleId) # {}) =>
               /\ "insertOne" \in consumer[c].ops
               /\ consumer[c].dbError = FALSE
               /\ consumer[c].result = "completed"

\* C24: for any interleaving of concurrent consumer invocations in one
\* process from a cold start, every invocation for an outside fix of an owned
\* vehicle whose store calls do not fail ends having inserted its own
\* document: each insert adds exactly one document, the collection holds as
\* many documents as inserts returned, and no invocation fails on the
\* module's client and database variables as another invocation leaves them.
C24_InvocationsIndependent ==
    /\ [](C24_NoneLost /\ Cardinality(violations) = oidCount)
    /\ [][\A c \in Consumers : StoreReturns(c) =>
             /\ violations \subseteq violations'
             /\ Cardinality(violations') = Cardinality(violations) + 1
             /\ oidCount' = oidCount + 1]_vars

\* C24 witness: two invocations that raced on a cold start (each made a
\* client) have both ended having inserted their documents.
C24_Witness ==
    /\ storePool.made = 2
    /\ \A c \in Consumers :
          /\ consumer[c].pc = "done" /\ consumer[c].dbError = FALSE
          /\ "insertOne" \in consumer[c].ops
    /\ Cardinality(violations) = 2

\* C27 (as stated): in the scanner module no invocation reaches
\* database.collection(...) after a normal return of getMongoClient with
\* database null.
C27_DatabaseNonNullOnReturn == scanPool.nullUse = FALSE

====
